---------------------------- MODULE Spec2Model ----------------------------
(***************************************************************************)
(* llama-burn: the pretrained-artifact cache (src/llama-burn/src/         *)
(* pretrained.rs) and the chat example that drives text generation        *)
(* (src/llama-burn/examples/chat.rs).                                      *)
(*                                                                         *)
(* Strings the code takes apart (urls, file names) are sequences of       *)
(* one-character strings, so that rsplit_once and replace are computed    *)
(* character by character as the standard library computes them.          *)
(***************************************************************************)
EXTENDS Integers, Sequences, FiniteSets, TLC

VARIABLES
    home,     \* dirs::home_dir() of the environment: "None" or a directory
    dirs,     \* the directories that exist
    files,    \* the files that exist: path -> content (a sequence of chunks)
    pc,       \* per process: where its download call stands
    loc,      \* per process: the locals and the outcome of its download call
    prev,     \* the download call that returned last before the running ones
    lastw,    \* per path: the latest File::create (at 0) or write (at the
              \* chunk written) on the file, with the bytes of its call
    nurl,     \* file-name derivation: the url handed to download
    nres,     \* file-name derivation: the file_base_name computed from it
    args,     \* chat: the parsed Config
    features, \* chat: the enabled cargo features
    cpc,      \* chat: position in chat()
    sampler,  \* chat: the Sampler built by chat()
    gen,      \* the running Llama::generate call
    calls     \* chat: the generate calls made so far, with what each printed

dlvars   == <<home, dirs, files, pc, loc, prev, lastw>>
namevars == <<nurl, nres>>
chatvars == <<args, features, cpc, sampler, gen, calls>>
vars     == <<home, dirs, files, pc, loc, prev, lastw, nurl, nres,
              args, features, cpc, sampler, gen, calls>>

(***************************************************************************)
(* Bounds of the model.                                                    *)
(***************************************************************************)
\* write_all hands the buffer to the OS in several writes ("files over 2GB")
NChunks == 2
\* the number of pieces the urls handed to the file-name derivation are put
\* together from
MaxPieces == 4
\* the largest --sample-len tried
MaxSampleLen == 2

(***************************************************************************)
(* str::rsplit_once and str::replace                                       *)
(***************************************************************************)
None == <<"None">>

RECURSIVE LastIndexOf(_, _, _)
\* the largest i <= n with s[i] = c, or 0
LastIndexOf(s, c, n) ==
    IF n = 0 THEN 0
    ELSE IF s[n] = c THEN n
    ELSE LastIndexOf(s, c, n - 1)

\* str::rsplit_once(c): Some((before, after)) around the last c, or None
RSplitOnce(s, c) ==
    LET i == LastIndexOf(s, c, Len(s))
    IN  IF i = 0 THEN None
        ELSE <<SubSeq(s, 1, i - 1), SubSeq(s, i + 1, Len(s))>>

StartsWith(s, pat) ==
    /\ Len(pat) <= Len(s)
    /\ SubSeq(s, 1, Len(pat)) = pat

RECURSIVE Replace(_, _, _)
\* str::replace(pat, to): every non-overlapping match of pat, left to right
Replace(s, pat, to) ==
    IF s = <<>> THEN <<>>
    ELSE IF StartsWith(s, pat)
         THEN to \o Replace(SubSeq(s, Len(pat) + 1, Len(s)), pat, to)
         ELSE <<Head(s)>> \o Replace(Tail(s), pat, to)

DownloadMarker == <<"?","d","o","w","n","l","o","a","d","=","t","r","u","e">>

\* url.rsplit_once('/').unwrap().1.replace("?download=true", ""); None
\* stands for the panic of unwrap on a url without '/'
file_base_name(url) ==
    LET parts == RSplitOnce(url, "/")
    IN  IF parts = None THEN None
        ELSE Replace(parts[2], DownloadMarker, <<>>)

(***************************************************************************)
(* The table of pretrained variants: ModelMeta for Llama                   *)
(***************************************************************************)
Variants == {"Llama3", "TinyLlama"}

Llama3Pretrained ==
    [name |-> "Llama-3-8B",
     model |-> <<"h","t","t","p","s",":","/","/","h","u","g","g","i","n","g","f","a","c","e",".","c","o","/","t","r","a","c","e","l","-","a","i","/","l","l","a","m","a","-","3","-","8","b","-","b","u","r","n","/","r","e","s","o","l","v","e","/","m","a","i","n","/","m","o","d","e","l",".","b","i","n","?","d","o","w","n","l","o","a","d","=","t","r","u","e">>,
     tokenizer |-> <<"h","t","t","p","s",":","/","/","h","u","g","g","i","n","g","f","a","c","e",".","c","o","/","t","r","a","c","e","l","-","a","i","/","l","l","a","m","a","-","3","-","8","b","-","b","u","r","n","/","r","e","s","o","l","v","e","/","m","a","i","n","/","t","o","k","e","n","i","z","e","r",".","m","o","d","e","l","?","d","o","w","n","l","o","a","d","=","t","r","u","e">>]

TinyLlamaPretrained ==
    [name |-> "TinyLlama-1.1B",
     model |-> <<"h","t","t","p","s",":","/","/","h","u","g","g","i","n","g","f","a","c","e",".","c","o","/","t","r","a","c","e","l","-","a","i","/","t","i","n","y","-","l","l","a","m","a","-","1",".","1","b","-","b","u","r","n","/","r","e","s","o","l","v","e","/","m","a","i","n","/","m","o","d","e","l",".","b","i","n","?","d","o","w","n","l","o","a","d","=","t","r","u","e">>,
     tokenizer |-> <<"h","t","t","p","s",":","/","/","h","u","g","g","i","n","g","f","a","c","e",".","c","o","/","t","r","a","c","e","l","-","a","i","/","t","i","n","y","-","l","l","a","m","a","-","1",".","1","b","-","b","u","r","n","/","r","e","s","o","l","v","e","/","m","a","i","n","/","t","o","k","e","n","i","z","e","r",".","j","s","o","n","?","d","o","w","n","l","o","a","d","=","t","r","u","e">>]

\* a table in which both variants carry one name
PretrainedSameName(v) ==
    IF v = "Llama3" THEN Llama3Pretrained
    ELSE [TinyLlamaPretrained EXCEPT !.name = Llama3Pretrained.name]

\* ModelMeta::pretrained
Pretrained(v) ==
    IF v = "Llama3" THEN Llama3Pretrained ELSE TinyLlamaPretrained

\* download_weights hands self.model to download, download_tokenizer
\* self.tokenizer
Kinds == {"weights", "tokenizer"}

UrlOf(v, k) ==
    IF k = "weights" THEN Pretrained(v).model ELSE Pretrained(v).tokenizer

(***************************************************************************)
(* The file system and the download calls                                  *)
(***************************************************************************)
Procs == {1, 2}

Homes == {"None", "/home/user"}

\* dirs::home_dir().join(".cache").join("llama-burn").join(self.name)
model_dir(h, v) == <<h, ".cache", "llama-burn", Pretrained(v).name>>

\* file_base_name of the url of each artifact of the table
BaseNameOf == [v \in Variants, k \in Kinds |-> file_base_name(UrlOf(v, k))]

\* model_dir.join(&file_base_name)
file_name(h, v, k) == Append(model_dir(h, v), BaseNameOf[v, k])

\* create_dir_all: the directory and every missing parent
Ancestors(d) == {SubSeq(d, 1, i) : i \in 1..Len(d)}

\* the remote content of one url as seen by different fetches: the same
\* bytes, or other ones
Versions == {1, 2}

\* the bytes one fetch of the url of (v, k) returned
Bytes(v, k, n) == [variant |-> v, kind |-> k, ver |-> n]
NoBytes == [variant |-> "-", kind |-> "-", ver |-> 0]
\* a part of a file never written: a write beyond the end leaves zeros
Hole == [variant |-> "0", kind |-> "0", ver |-> 0]

\* what Path::exists and a read of the file see
FileState(path) ==
    IF path \in DOMAIN files
    THEN [present |-> TRUE, data |-> files[path]]
    ELSE [present |-> FALSE, data |-> <<>>]

NoPath == <<>>

NoCall ==
    [variant |-> "-", kind |-> "-", path |-> NoPath, bytes |-> NoBytes,
     off |-> 0, hit |-> FALSE, fetched |-> FALSE,
     before |-> [present |-> FALSE, data |-> <<>>],
     result |-> "-", fail |-> "none"]

\* what is kept of a call once the next one has begun
Returned(l) ==
    [l EXCEPT !.off = 0, !.before = NoCall.before, !.bytes = NoBytes]

\* the call returns: Ok(file_name), Err(io::Error) or a panic
Return(p, l, result, fail) ==
    /\ loc' = [loc EXCEPT ![p] = [l EXCEPT !.result = result, !.fail = fail]]
    /\ pc' = [pc EXCEPT ![p] = "done"]

\* download_weights / download_tokenizer is called
Begin(p, v, k) ==
    /\ pc[p] \in {"idle", "done"}
    /\ prev' = IF pc[p] = "done" THEN Returned(loc[p]) ELSE prev
    /\ loc' = [loc EXCEPT ![p] =
                 [NoCall EXCEPT !.variant = v, !.kind = k,
                    !.before = IF home = "None"
                               THEN NoCall.before
                               ELSE FileState(file_name(home, v, k))]]
    /\ pc' = [pc EXCEPT ![p] = "dir"]
    /\ UNCHANGED <<home, dirs, files, lastw>>
    /\ UNCHANGED <<namevars, chatvars>>

\* the calls of one process after the other: no call is running
BeginSeq(p, v, k) ==
    /\ \A q \in Procs : pc[q] \in {"idle", "done"}
    /\ Begin(p, v, k)

\* let model_dir = ...; if !model_dir.exists() { create_dir_all(&model_dir)?; }
CreateDir(p) ==
    /\ pc[p] = "dir"
    /\ IF home = "None"
       THEN /\ Return(p, loc[p], "Panic", "home")
            /\ UNCHANGED dirs
       ELSE LET d == model_dir(home, loc[p].variant)
            IN  IF d \in dirs
                THEN /\ pc' = [pc EXCEPT ![p] = "exists"]
                     /\ UNCHANGED <<dirs, loc>>
                ELSE \/ /\ dirs' = dirs \cup Ancestors(d)
                        /\ pc' = [pc EXCEPT ![p] = "exists"]
                        /\ UNCHANGED loc
                     \/ /\ Return(p, loc[p], "Err", "mkdir")
                        /\ UNCHANGED dirs
    /\ UNCHANGED <<home, files, prev, lastw>>
    /\ UNCHANGED <<namevars, chatvars>>

\* an existence test that takes an empty file for a miss
CheckExistsNonEmpty(p) ==
    /\ pc[p] = "exists"
    /\ LET path == file_name(home, loc[p].variant, loc[p].kind)
           l    == [loc[p] EXCEPT !.path = path]
       IN  IF path \in DOMAIN files /\ files[path] # <<>>
           THEN Return(p, [l EXCEPT !.hit = TRUE], "Ok", "none")
           ELSE /\ loc' = [loc EXCEPT ![p] = l]
                /\ pc' = [pc EXCEPT ![p] = "fetch"]
    /\ UNCHANGED <<home, dirs, files, prev, lastw>>
    /\ UNCHANGED <<namevars, chatvars>>

\* an existence test that never finds the file
CheckExistsNever(p) ==
    /\ pc[p] = "exists"
    /\ loc' = [loc EXCEPT ![p].path =
                  file_name(home, loc[p].variant, loc[p].kind)]
    /\ pc' = [pc EXCEPT ![p] = "fetch"]
    /\ UNCHANGED <<home, dirs, files, prev, lastw>>
    /\ UNCHANGED <<namevars, chatvars>>

\* let file_base_name = ...; let file_name = model_dir.join(&file_base_name);
\* if !file_name.exists() { ... } Ok(file_name)
CheckExists(p) ==
    /\ pc[p] = "exists"
    /\ IF BaseNameOf[loc[p].variant, loc[p].kind] = None
       THEN Return(p, loc[p], "Panic", "url")
       ELSE LET path == file_name(home, loc[p].variant, loc[p].kind)
                l    == [loc[p] EXCEPT !.path = path]
            IN  IF path \in DOMAIN files
                THEN Return(p, [l EXCEPT !.hit = TRUE], "Ok", "none")
                ELSE /\ loc' = [loc EXCEPT ![p] = l]
                     /\ pc' = [pc EXCEPT ![p] = "fetch"]
    /\ UNCHANGED <<home, dirs, files, prev, lastw>>
    /\ UNCHANGED <<namevars, chatvars>>

\* a download that creates the file before it fetches the content
FetchIntoCreatedFile(p) ==
    /\ pc[p] = "fetch"
    /\ files' = [q \in DOMAIN files \cup {loc[p].path} |->
                    IF q = loc[p].path THEN <<>> ELSE files[q]]
    /\ \/ \E n \in Versions :
            /\ loc' = [loc EXCEPT ![p].fetched = TRUE,
                          ![p].bytes = Bytes(loc[p].variant, loc[p].kind, n)]
            /\ pc' = [pc EXCEPT ![p] = "write"]
       \/ Return(p, [loc[p] EXCEPT !.fetched = TRUE], "Panic", "net")
    /\ UNCHANGED <<home, dirs, prev, lastw>>
    /\ UNCHANGED <<namevars, chatvars>>

\* let bytes = downloader::download_file_as_bytes(url, &file_base_name);
\* the function returns the bytes, not a Result: a failed fetch panics
Fetch(p) ==
    /\ pc[p] = "fetch"
    /\ \/ \E n \in Versions :
            /\ loc' = [loc EXCEPT ![p].fetched = TRUE,
                          ![p].bytes = Bytes(loc[p].variant, loc[p].kind, n)]
            /\ pc' = [pc EXCEPT ![p] = "create"]
       \/ Return(p, [loc[p] EXCEPT !.fetched = TRUE], "Panic", "net")
    /\ UNCHANGED <<home, dirs, files, prev, lastw>>
    /\ UNCHANGED <<namevars, chatvars>>

\* let mut output_file = File::create(&file_name)?;  creates the file, or
\* truncates the one that is there
CreateFile(p) ==
    /\ pc[p] = "create"
    /\ \/ /\ files' = [q \in DOMAIN files \cup {loc[p].path} |->
                         IF q = loc[p].path THEN <<>> ELSE files[q]]
          /\ lastw' = [q \in DOMAIN lastw \cup {loc[p].path} |->
                         IF q = loc[p].path
                         THEN [at |-> 0, chunk |-> loc[p].bytes]
                         ELSE lastw[q]]
          /\ pc' = [pc EXCEPT ![p] = "write"]
          /\ UNCHANGED loc
       \/ /\ Return(p, loc[p], "Err", "create")
          /\ UNCHANGED <<files, lastw>>
    /\ UNCHANGED <<home, dirs, prev>>
    /\ UNCHANGED <<namevars, chatvars>>

\* the content after a write of chunk c at chunk offset i (0-based): the
\* file grows, with zeros, up to the offset
WriteAt(data, i, c) ==
    [j \in 1..(IF Len(data) > i THEN Len(data) ELSE i + 1) |->
        IF j = i + 1 THEN c
        ELSE IF j <= Len(data) THEN data[j] ELSE Hole]

\* a write that appends at the end of the file, as under O_APPEND
WriteChunkAppend(p) ==
    /\ pc[p] = "write"
    /\ loc[p].path \in DOMAIN files
    /\ files' = [files EXCEPT ![loc[p].path] = Append(@, loc[p].bytes)]
    /\ lastw' = [q \in DOMAIN lastw \cup {loc[p].path} |->
                    IF q = loc[p].path
                    THEN [at |-> Len(files[loc[p].path]) + 1,
                          chunk |-> loc[p].bytes]
                    ELSE lastw[q]]
    /\ IF loc[p].off + 1 = NChunks
       THEN Return(p, [loc[p] EXCEPT !.off = @ + 1], "Ok", "none")
       ELSE /\ loc' = [loc EXCEPT ![p].off = @ + 1]
            /\ UNCHANGED pc
    /\ UNCHANGED <<home, dirs, prev>>
    /\ UNCHANGED <<namevars, chatvars>>

\* output_file.write_all(&bytes)?;  one write of the loop inside write_all,
\* at the offset of this process's file handle
WriteChunk(p) ==
    /\ pc[p] = "write"
    /\ loc[p].path \in DOMAIN files
    /\ \/ /\ files' = [files EXCEPT ![loc[p].path] =
                          WriteAt(@, loc[p].off, loc[p].bytes)]
          /\ lastw' = [q \in DOMAIN lastw \cup {loc[p].path} |->
                          IF q = loc[p].path
                          THEN [at |-> loc[p].off + 1, chunk |-> loc[p].bytes]
                          ELSE lastw[q]]
          /\ IF loc[p].off + 1 = NChunks
             THEN Return(p, [loc[p] EXCEPT !.off = @ + 1], "Ok", "none")
             ELSE /\ loc' = [loc EXCEPT ![p].off = @ + 1]
                  /\ UNCHANGED pc
       \/ /\ Return(p, loc[p], "Err", "write")
          /\ UNCHANGED <<files, lastw>>
    /\ UNCHANGED <<home, dirs, prev>>
    /\ UNCHANGED <<namevars, chatvars>>

(***************************************************************************)
(* The file name of a url, over urls put together from a few pieces        *)
(***************************************************************************)
Pieces ==
    { <<"/">>, <<"a">>, <<"b", ".", "c">>, <<"?","d","o","w","n">>,
      DownloadMarker }

RECURSIVE UrlsOf(_)
UrlsOf(n) ==
    IF n = 0 THEN {<<>>}
    ELSE LET shorter == UrlsOf(n - 1)
         IN  shorter \cup {u \o q : u \in shorter, q \in Pieces}

Unset == <<"unset">>

\* download(url) up to file_base_name
DeriveName ==
    /\ nres = Unset
    /\ nres' = file_base_name(nurl)
    /\ UNCHANGED <<nurl, dlvars, chatvars>>

(***************************************************************************)
(* The chat example: Config, chat() and generate()                         *)
(***************************************************************************)
\* an f64: NaN, or a number counted in tenths
FNaN == [nan |-> TRUE, tenths |-> 0]
F64(t) == [nan |-> FALSE, tenths |-> t]

\* a > b on f64: false when either side is NaN
FGt(a, b) == ~a.nan /\ ~b.nan /\ a.tenths > b.tenths

DEFAULT_PROMPT == "How many helicopters can a human eat in one sitting?"

\* --top-p, in hundredths (default 0.9)
TopPs == {50, 90}
\* --temperature (default 0.6)
Temperatures == {FNaN, F64(-5), F64(0), F64(6)}
\* --seed (default 42)
Seeds == {42}
\* --prompt
Prompts == {DEFAULT_PROMPT, "Hi"}

\* struct Config, as Config::parse() may return it
Configs ==
    [top_p : TopPs, temperature : Temperatures, max_seq_len : {128},
     sample_len : 0..MaxSampleLen, seed : Seeds, prompt : Prompts]

\* the cargo features that select the blocks of chat()
Features == SUBSET {"tiny", "llama3"}

\* Sampler::Argmax and Sampler::TopP(TopP::new(top_p, seed)); draws counts
\* the draws made from the sampler's random generator
Argmax == [kind |-> "Argmax", top_p |-> 0, seed |-> 0, draws |-> 0]
TopPNew(p, seed) == [kind |-> "TopP", top_p |-> p, seed |-> seed, draws |-> 0]
NoSampler == [kind |-> "-", top_p |-> 0, seed |-> 0, draws |-> 0]

\* a choice that takes a temperature of 0 for a positive one
SamplerForZeroAsPositive(c) ==
    IF ~c.temperature.nan /\ c.temperature.tenths >= 0
    THEN TopPNew(c.top_p, c.seed)
    ELSE Argmax

\* let mut sampler = if args.temperature > 0.0 { TopP } else { Argmax };
SamplerFor(c) ==
    IF FGt(c.temperature, F64(0))
    THEN TopPNew(c.top_p, c.seed)
    ELSE Argmax

\* the token ids of the model's vocabulary; the first is end-of-sequence
Vocab == 1..3
EosToken == 1

\* tokenizer.encode(prompt): the tokens of the prompt
Tokenizations == {<<2>>, <<2, 3>>}

\* next-token distributions the model may return, in hundredths
Dists == {<<10, 60, 30>>, <<50, 25, 25>>, <<40, 40, 20>>}

\* tokenizer.decode(tokens): special tokens leave no text
RECURSIVE Detokenize(_)
Detokenize(tokens) ==
    IF tokens = <<>> THEN ""
    ELSE (IF Head(tokens) = EosToken THEN ""
          ELSE IF Head(tokens) = 2 THEN "a" ELSE "b")
         \o Detokenize(Tail(tokens))

\* Argmax: the lowest index that holds the largest probability
ArgmaxOf(d) ==
    CHOOSE i \in Vocab :
        /\ \A j \in Vocab : d[j] <= d[i]
        /\ \A j \in Vocab : j < i => d[j] < d[i]

\* i comes before j in the stable sort by descending probability
SortsBefore(d, i, j) == d[i] > d[j] \/ (d[i] = d[j] /\ i < j)

RECURSIVE SumOf(_, _)
SumOf(d, S) ==
    IF S = {} THEN 0
    ELSE LET i == CHOOSE x \in S : TRUE IN d[i] + SumOf(d, S \ {i})

\* TopP: the prefix of the sorted candidates up to the one with which the
\* cumulative probability exceeds the threshold
Nucleus(d, p) ==
    {i \in Vocab : SumOf(d, {j \in Vocab : SortsBefore(d, j, i)}) <= p}

\* Sampler::sample: the tokens the sampler may return for d
SampleSet(sm, d) ==
    IF sm.kind = "TopP" THEN Nucleus(d, sm.top_p) ELSE {ArgmaxOf(d)}

\* the sampler after one sample: TopP advances its random generator
Advance(sm) == IF sm.kind = "TopP" THEN [sm EXCEPT !.draws = @ + 1] ELSE sm

NoGen ==
    [feature |-> "-", prompt |-> "", max_new |-> 0, temperature |-> FNaN,
     context |-> <<>>, produced |-> <<>>, inferences |-> 0,
     status |-> "none", sampler_in |-> NoSampler, text |-> "", tokens |-> 0]

\* a call that asks for one token more than sample_len
GenerateCallOneMore(feature, prompt, sample_len, temperature) ==
    \E toks \in Tokenizations :
        gen' = [NoGen EXCEPT !.feature = feature, !.prompt = prompt,
                   !.max_new = sample_len + 1, !.temperature = temperature,
                   !.context = toks, !.status = "loop",
                   !.sampler_in = sampler]

\* generate(): let generated = llama.generate(prompt, sample_len,
\* temperature, sampler);  the prompt is tokenized into the context
GenerateCall(feature, prompt, sample_len, temperature) ==
    \E toks \in Tokenizations :
        gen' = [NoGen EXCEPT !.feature = feature, !.prompt = prompt,
                   !.max_new = sample_len, !.temperature = temperature,
                   !.context = toks, !.status = "loop",
                   !.sampler_in = sampler]

\* the token generated last is the end-of-sequence marker
EndsWithEos(produced) ==
    IF produced = <<>> THEN FALSE ELSE produced[Len(produced)] = EosToken

\* one step of the generation loop: the model's distribution for the
\* context, one sample, the token appended
LlamaGenerateStep ==
    /\ gen.status = "loop"
    /\ Len(gen.produced) < gen.max_new
    /\ ~EndsWithEos(gen.produced)
    /\ \E d \in Dists : \E t \in SampleSet(sampler, d) :
          /\ gen' = [gen EXCEPT !.inferences = @ + 1,
                        !.context = Append(@, t),
                        !.produced = Append(@, t)]
          /\ sampler' = Advance(sampler)
    /\ UNCHANGED <<args, features, cpc, calls, dlvars, namevars>>

\* the loop is over: max_new_tokens steps were taken or the last token is
\* end-of-sequence; the generated part is decoded and counted
LlamaGenerateReturn ==
    /\ gen.status = "loop"
    /\ Len(gen.produced) = gen.max_new \/ EndsWithEos(gen.produced)
    /\ gen' = [gen EXCEPT !.status = "returned",
                  !.text = Detokenize(gen.produced),
                  !.tokens = Len(gen.produced)]
    /\ UNCHANGED <<args, features, cpc, sampler, calls, dlvars, namevars>>

NextBlock(at) == IF at = "tiny_gen" THEN "llama3" ELSE "end"

\* a report that counts the tokens asked for
GenerateReportAsked ==
    /\ gen.status = "returned"
    /\ calls' = Append(calls,
          [feature |-> gen.feature, prompt |-> gen.prompt,
           sample_len |-> args.sample_len, sampler_in |-> gen.sampler_in,
           sampler_out |-> sampler, text |-> gen.text,
           tokens |-> args.sample_len, produced |-> gen.produced,
           inferences |-> gen.inferences])
    /\ gen' = NoGen
    /\ cpc' = NextBlock(cpc)
    /\ UNCHANGED <<args, features, sampler, dlvars, namevars>>

\* generate(): println!("> {}\n", generated.text); println!("{} tokens
\* generated ...", generated.tokens, ...); and the return to chat()
GenerateReport ==
    /\ gen.status = "returned"
    /\ calls' = Append(calls,
          [feature |-> gen.feature, prompt |-> gen.prompt,
           sample_len |-> args.sample_len, sampler_in |-> gen.sampler_in,
           sampler_out |-> sampler, text |-> gen.text,
           tokens |-> gen.tokens, produced |-> gen.produced,
           inferences |-> gen.inferences])
    /\ gen' = NoGen
    /\ cpc' = NextBlock(cpc)
    /\ UNCHANGED <<args, features, sampler, dlvars, namevars>>

\* chat(): let mut prompt = args.prompt; and the choice of the sampler
ChooseSampler ==
    /\ cpc = "start"
    /\ sampler' = SamplerFor(args)
    /\ cpc' = "tiny"
    /\ UNCHANGED <<args, features, gen, calls, dlvars, namevars>>

TinyFormat(prompt) ==
    "<|system|>\nYou are a friendly chatbot who always responds in the style of a pirate</s>\n<|user|>\n"
    \o prompt \o "</s>\n<|assistant|>\n"

Llama3Format(prompt) ==
    "<|start_header_id|>system<|end_header_id|>\n\nA chat between a curious user and an artificial intelligence assistant. The assistant gives helpful, detailed, and polite answers to the user's questions.<|eot_id|><|start_header_id|>user<|end_header_id|>\n\n"
    \o prompt \o "<|eot_id|><|start_header_id|>assistant<|end_header_id|>\n\n"

\* #[cfg(feature = "tiny")] { ... }: the model is loaded (unwrap), the
\* prompt is formatted and assigned, generate is called
ChatTiny ==
    /\ cpc = "tiny"
    /\ IF "tiny" \in features
       THEN \/ /\ cpc' = "panic"
               /\ UNCHANGED <<args, gen>>
            \/ /\ args' = [args EXCEPT !.prompt = TinyFormat(@)]
               /\ GenerateCall("tiny", TinyFormat(args.prompt),
                               args.sample_len, args.temperature)
               /\ cpc' = "tiny_gen"
       ELSE /\ cpc' = "llama3"
            /\ UNCHANGED <<args, gen>>
    /\ UNCHANGED <<features, sampler, calls, dlvars, namevars>>

\* #[cfg(feature = "llama3")] { ... }
ChatLlama3 ==
    /\ cpc = "llama3"
    /\ IF "llama3" \in features
       THEN \/ /\ cpc' = "panic"
               /\ UNCHANGED <<args, gen>>
            \/ /\ args' = [args EXCEPT !.prompt = Llama3Format(@)]
               /\ GenerateCall("llama3", Llama3Format(args.prompt),
                               args.sample_len, args.temperature)
               /\ cpc' = "llama3_gen"
       ELSE /\ cpc' = "end"
            /\ UNCHANGED <<args, gen>>
    /\ UNCHANGED <<features, sampler, calls, dlvars, namevars>>

(***************************************************************************)
(* Specifications                                                          *)
(***************************************************************************)
NameIdle == nurl = <<>> /\ nres = <<>>

CacheIdle ==
    /\ home = "None"
    /\ dirs = {}
    /\ files = <<>>
    /\ pc = [p \in Procs |-> "idle"]
    /\ loc = [p \in Procs |-> NoCall]
    /\ prev = NoCall
    /\ lastw = <<>>

ChatIdle ==
    /\ args = <<>>
    /\ features = {}
    /\ cpc = "off"
    /\ sampler = NoSampler
    /\ gen = NoGen
    /\ calls = <<>>

InitCache ==
    /\ home \in Homes
    /\ dirs = {}
    /\ files = <<>>
    /\ pc = [p \in Procs |-> "idle"]
    /\ loc = [p \in Procs |-> NoCall]
    /\ prev = NoCall
    /\ lastw = <<>>

Init == InitCache /\ NameIdle /\ ChatIdle

\* the download calls of one process, one after the other
Next ==
    \/ \E v \in Variants, k \in Kinds : BeginSeq(1, v, k)
    \/ CreateDir(1)
    \/ CheckExists(1)
    \/ Fetch(1)
    \/ CreateFile(1)
    \/ WriteChunk(1)

Spec == Init /\ [][Next]_vars

\* two processes that share the cache directory and download the same
\* artifact (one variant, one url)
NextConc ==
    \/ \E p \in Procs : Begin(p, "Llama3", "weights")
    \/ \E p \in Procs : CreateDir(p)
    \/ \E p \in Procs : CheckExists(p)
    \/ \E p \in Procs : Fetch(p)
    \/ \E p \in Procs : CreateFile(p)
    \/ \E p \in Procs : WriteChunk(p)

SpecConc == Init /\ [][NextConc]_vars

InitName ==
    /\ nurl \in UrlsOf(MaxPieces)
    /\ nres = Unset
    /\ CacheIdle
    /\ ChatIdle

NextName == DeriveName

SpecName == InitName /\ [][NextName]_vars

\* main(): Config::parse() and chat(args, device)
InitChat ==
    /\ args \in Configs
    /\ features \in Features
    /\ cpc = "start"
    /\ sampler = NoSampler
    /\ gen = NoGen
    /\ calls = <<>>
    /\ CacheIdle
    /\ NameIdle

NextChat ==
    \/ ChooseSampler
    \/ ChatTiny
    \/ ChatLlama3
    \/ LlamaGenerateStep
    \/ LlamaGenerateReturn
    \/ GenerateReport

SpecChat == InitChat /\ [][NextChat]_vars

(***************************************************************************)
(* Claims about the cache                                                  *)
(***************************************************************************)
\* the file names the artifacts are expected to be cached under
CachedAs(v, k) ==
    IF k = "weights" THEN <<"m","o","d","e","l",".","b","i","n">>
    ELSE IF v = "Llama3"
         THEN <<"t","o","k","e","n","i","z","e","r",".","m","o","d","e","l">>
         ELSE <<"t","o","k","e","n","i","z","e","r",".","j","s","o","n">>

CachedNameOf(v) == IF v = "Llama3" THEN "Llama-3-8B" ELSE "TinyLlama-1.1B"

ExpectedPath(v, k) ==
    <<home, ".cache", "llama-burn", CachedNameOf(v), CachedAs(v, k)>>

SameArtifact(a, b) == a.variant = b.variant /\ a.kind = b.kind

\* the call that returned last and the one before it are two successful
\* downloads of one artifact, the first of which found no file
TwoCallsFromEmpty ==
    /\ pc[1] = "done"
    /\ SameArtifact(prev, loc[1])
    /\ prev.result = "Ok" /\ loc[1].result = "Ok"
    /\ ~prev.hit

\* C1: starting without the file, two successful downloads of one artifact
\* one after the other fetch exactly once: the first fetches and writes the
\* file, the second is a cache hit, and both return the path
\* <home>/.cache/llama-burn/<name>/<filename>.
C1_TwoCallsOneFetch ==
    TwoCallsFromEmpty =>
        /\ prev.fetched
        /\ loc[1].hit /\ ~loc[1].fetched
        /\ prev.path = loc[1].path
        /\ loc[1].path = ExpectedPath(loc[1].variant, loc[1].kind)
        /\ Len(files[loc[1].path]) = NChunks

C1_Witness ==
    /\ TwoCallsFromEmpty
    /\ loc[1].hit
    /\ prev.fetched

\* C2: a download called while a file is at the cache path, whatever the file
\* holds, returns that path, fetches nothing and leaves the content as it
\* was; only the file's existence is tested.
C2_ExistingFileIsHit ==
    /\ pc[1] \in {"fetch", "create", "write"} => ~loc[1].before.present
    /\ (pc[1] = "done" /\ loc[1].before.present) =>
          /\ loc[1].result = "Ok"
          /\ loc[1].hit /\ ~loc[1].fetched
          /\ loc[1].path = ExpectedPath(loc[1].variant, loc[1].kind)
          /\ FileState(loc[1].path) = loc[1].before

C2_Witness ==
    /\ pc[1] = "done"
    /\ loc[1].before.present
    /\ Len(loc[1].before.data) < NChunks
    /\ loc[1].hit
    /\ prev.hit /\ SameArtifact(prev, loc[1])

\* C3: a failure to create the cache directory, of the network fetch, or to
\* create or write the file each ends the call with an Err returned to the
\* caller, never in another way.
C3_FailuresReturnErr ==
    (pc[1] = "done" /\ loc[1].fail \in {"mkdir", "net", "create", "write"})
        => loc[1].result = "Err"

Artifacts == Variants \X Kinds

\* C8: the two variants have distinct names, the cache paths of distinct
\* artifacts never coincide, and no download reads, hits on or overwrites a
\* file cached for another artifact.
C8_VariantsApart ==
    /\ \A v, w \in Variants : v # w => Pretrained(v).name # Pretrained(w).name
    /\ \A a, b \in Artifacts :
          a # b => file_name(home, a[1], a[2]) # file_name(home, b[1], b[2])
    /\ \A path \in DOMAIN files :
          /\ path \in DOMAIN lastw
          /\ path = ExpectedPath(lastw[path].chunk.variant,
                                 lastw[path].chunk.kind)
          /\ \A i \in 1..Len(files[path]) :
                path = ExpectedPath(files[path][i].variant,
                                    files[path][i].kind)
    /\ (pc[1] \in {"fetch", "create", "write", "done"}
          /\ loc[1].path \in DOMAIN files) =>
             /\ lastw[loc[1].path].chunk.variant = loc[1].variant
             /\ lastw[loc[1].path].chunk.kind = loc[1].kind

C8_Witness ==
    /\ pc[1] = "done"
    /\ loc[1].variant = "TinyLlama" /\ loc[1].kind = "weights"
    /\ loc[1].result = "Ok" /\ loc[1].fetched
    /\ prev.variant = "Llama3" /\ prev.kind = "weights"
    /\ prev.result = "Ok" /\ prev.fetched
    /\ \A a \in Artifacts : ExpectedPath(a[1], a[2]) \in DOMAIN files

\* C10: on a miss the fetch is complete before the file is created: a call
\* whose fetch fails leaves no file (the directory may have been created),
\* the next call for that url misses and fetches again, and a file is only
\* ever created by a call whose fetch succeeded.
C10_FetchBeforeCreate ==
    /\ pc[1] \in {"create", "write"} =>
          loc[1].fetched /\ loc[1].bytes # NoBytes
    /\ (pc[1] = "done" /\ loc[1].fail = "net") =>
          /\ ~loc[1].before.present
          /\ ~FileState(loc[1].path).present
          /\ model_dir(home, loc[1].variant) \in dirs
    /\ (prev.fail = "net" /\ SameArtifact(prev, loc[1])
          /\ pc[1] \in {"fetch", "create", "write", "done"}) =>
             /\ ~loc[1].hit
             /\ pc[1] # "fetch" => loc[1].fetched
    /\ \A path \in DOMAIN files :
          path \in DOMAIN lastw /\ lastw[path].chunk # NoBytes

C10_Witness ==
    /\ prev.fail = "net" /\ prev.result = "Panic"
    /\ SameArtifact(prev, loc[1])
    /\ pc[1] = "done"
    /\ loc[1].result = "Ok" /\ loc[1].fetched

\* both processes have returned from a download of the artifact on which
\* each found no file, fetched, and created and wrote the file
BothWrote ==
    /\ pc[1] = "done" /\ pc[2] = "done"
    /\ SameArtifact(loc[1], loc[2])
    /\ loc[1].result = "Ok" /\ loc[2].result = "Ok"
    /\ loc[1].fetched /\ loc[2].fetched

\* C9 as stated: after two concurrent downloads of one artifact that both
\* missed, fetched and wrote, the file's content is the one written by the
\* process that wrote last.
C9_LastWriterWins ==
    BothWrote =>
        \A i \in 1..Len(files[loc[1].path]) :
            files[loc[1].path][i] = lastw[loc[1].path].chunk

\* C9, amended: a call that missed fetches, creates and writes the file
\* whatever the other process did meanwhile; when both have written, the
\* file is complete, its last part is the one written by the process that
\* wrote last, and every part is the one written by one of the two; a call
\* that finds the file present returns it at once, complete or not.
C9_LastWriterPerPart ==
    /\ \A p \in Procs :
          pc[p] \in {"create", "write"} => loc[p].fetched /\ ~loc[p].hit
    /\ \A p \in Procs :
          (pc[p] = "done" /\ loc[p].hit) =>
              loc[p].result = "Ok" /\ ~loc[p].fetched
    /\ BothWrote =>
          LET f == files[loc[1].path]
              w == lastw[loc[1].path]
          IN  /\ Len(f) = NChunks
              /\ w.at = NChunks
              /\ f[NChunks] = w.chunk
              /\ \A i \in 1..NChunks : f[i] \in {loc[1].bytes, loc[2].bytes}

\* two calls fetched and wrote the file, and a third call found the file
\* present while it was empty or incomplete
C9_Witness ==
    \E p, q \in Procs :
        /\ p # q
        /\ prev.result = "Ok" /\ prev.fetched
        /\ pc[q] = "done" /\ loc[q].result = "Ok" /\ loc[q].fetched
        /\ pc[p] = "done" /\ loc[p].hit
        /\ loc[p].before.present /\ Len(loc[p].before.data) < NChunks
        /\ SameArtifact(prev, loc[q]) /\ SameArtifact(prev, loc[p])

\* the file ends as a mix of what the two processes fetched
C9_MixedContent ==
    /\ BothWrote
    /\ \E i, j \in 1..NChunks : files[loc[1].path][i] # files[loc[1].path][j]

(***************************************************************************)
(* Claims about the file name                                              *)
(***************************************************************************)
EndsWith(s, pat) ==
    /\ Len(pat) <= Len(s)
    /\ SubSeq(s, Len(s) - Len(pat) + 1, Len(s)) = pat

Contains(s, pat) ==
    \E i \in 1..(Len(s) - Len(pat) + 1) : SubSeq(s, i, i + Len(pat) - 1) = pat

\* the text after the last '/' of a url that has one
LastSegment(url) ==
    LET i == CHOOSE j \in 1..Len(url) :
                 url[j] = "/" /\ \A m \in (j + 1)..Len(url) : url[m] # "/"
    IN  SubSeq(url, i + 1, Len(url))

EosOnlyLast(tokens) ==
    \A i \in 1..Len(tokens) : tokens[i] = EosToken => i = Len(tokens)

\* C5: the generation loop ends at the first end-of-sequence token or after
\* max_new_tokens steps, whichever comes first; the token count the example
\* reports is the number of tokens generated and is at most sample_len.
C5_CountWithinSampleLen ==
    /\ gen.status # "none" =>
          /\ gen.max_new = args.sample_len
          /\ Len(gen.produced) <= gen.max_new
          /\ EosOnlyLast(gen.produced)
    /\ \A i \in 1..Len(calls) :
          /\ calls[i].tokens = Len(calls[i].produced)
          /\ calls[i].tokens <= calls[i].sample_len
          /\ EosOnlyLast(calls[i].produced)
          /\ calls[i].tokens < calls[i].sample_len =>
                EndsWithEos(calls[i].produced)

C5_Witness ==
    \E i \in 1..Len(calls) :
        /\ calls[i].tokens > 0
        /\ calls[i].tokens < calls[i].sample_len
        /\ EndsWithEos(calls[i].produced)

\* C6: a generation call with max_new_tokens = 0 returns a token count of 0
\* and an empty text, calls the model not once and leaves the sampler's state
\* as it was.
C6_ZeroTokensAsked ==
    /\ (gen.status # "none" /\ args.sample_len = 0) =>
          /\ gen.inferences = 0
          /\ gen.produced = <<>>
          /\ sampler = gen.sampler_in
    /\ \A i \in 1..Len(calls) :
          calls[i].sample_len = 0 =>
              /\ calls[i].tokens = 0
              /\ calls[i].text = ""
              /\ calls[i].inferences = 0
              /\ calls[i].sampler_out = calls[i].sampler_in

C6_Witness ==
    /\ Len(calls) = 2
    /\ calls[2].sample_len = 0
    /\ calls[2].sampler_in.kind = "TopP"
    /\ calls[2].text = ""

\* the sampler the claim expects for a temperature that is not negative
ExpectedSampler ==
    IF args.temperature.tenths = 0
    THEN [kind |-> "Argmax", top_p |-> 0, seed |-> 0]
    ELSE [kind |-> "TopP", top_p |-> args.top_p, seed |-> args.seed]

IsExpected(sm) ==
    /\ sm.kind = ExpectedSampler.kind
    /\ sm.top_p = ExpectedSampler.top_p
    /\ sm.seed = ExpectedSampler.seed

\* C7: for a temperature >= 0, chat hands Argmax to generation exactly when
\* the temperature is 0 and TopP built from top_p and seed exactly when it is
\* positive; the sampler is built once, before any generate call, and every
\* generate call of the run gets that one instance.
C7_SamplerChoice ==
    (~args.temperature.nan /\ args.temperature.tenths >= 0) =>
        /\ cpc \notin {"start", "off"} => IsExpected(sampler)
        /\ gen.status # "none" => IsExpected(gen.sampler_in)
        /\ (gen.status # "none" /\ calls = <<>>) => gen.sampler_in.draws = 0
        /\ (gen.status # "none" /\ calls # <<>>) =>
              gen.sampler_in = calls[Len(calls)].sampler_out
        /\ \A i \in 1..Len(calls) :
              /\ IsExpected(calls[i].sampler_in)
              /\ i = 1 => calls[i].sampler_in.draws = 0
              /\ i > 1 => calls[i].sampler_in = calls[i - 1].sampler_out

C7_Witness ==
    /\ Len(calls) = 2
    /\ args.temperature.tenths > 0
    /\ calls[1].sampler_in.kind = "TopP"
    /\ calls[2].sampler_in.draws > 0
    /\ calls[2].sampler_out.draws > calls[2].sampler_in.draws

\* with a temperature of 0 both generate calls of a run got Argmax
C7_ArgmaxReached ==
    /\ Len(calls) = 2
    /\ ~args.temperature.nan /\ args.temperature.tenths = 0
    /\ calls[2].sampler_in.kind = "Argmax"
    /\ calls[2].tokens > 0

=============================================================================
